---- MODULE Spec2Model ----
(***************************************************************************)
(* Comparison batch allocation and vote ingestion of mc-bench-backend:     *)
(* get_comparison_batch and post_comparison of                             *)
(* src/mc_bench/apps/api/routers/comparison.py, over a Redis token store,  *)
(* the Redis recompute lock, the Celery queue and the Postgres ledger.     *)
(***************************************************************************)
EXTENDS Integers, Sequences, FiniteSets, TLC

\* ---------------------------------------------------------------- constants
\* Program constants.
MAX_BATCH_SIZE == 10
TokenTTL == 3600
LockTTL == 300

\* Bounds of the model.
NumSamples == 4
NumRequests == 2
MaxTokens == 2
MaxRows == 1
MaxRankLen == 2
MaxTie == 2
MaxConns == 2
MaxRemoved == 1
RaceRankLen == 1
RaceTie == 0
BatchRows == 2

Samples == 1..NumSamples          \* comparison_sample_id values in storage
Requests == 1..NumRequests        \* vote requests in flight
Tokens == 1..MaxTokens            \* tokens uuid4 can still produce
BogusToken == 0                   \* a token string that was never issued

\* ----------------------------------------------------------- reference data
\* Sample rows: primary key, external comparison id, test set, model name.
\* Samples 1 and 4 carry no test set (0), the others each their own.
SampleRow(e) ==
    [id |-> 100 + e,
     comparison_sample_id |-> e,
     test_set_id |-> IF e \in {1, 4} THEN 0 ELSE e,
     model |-> 200 + e]

\* Metric rows by external id; external id 1 exists, 2 does not.
MetricIds == {1, 2}
MetricsDB == {1}
MetricRow(m) == [id |-> 300 + m, external_id |-> m]

\* Callers: 0 is anonymous (user_uuid None); 1..3 are authenticated.
\* User 1 holds the voting scope, user 2 does not, 3 has no User row.
Anonymous == 0
Callers == 0..3
UsersDB == {1, 2}
UserRow(u) == [id |-> 400 + u, scopes |-> IF u = 1 THEN {"voting:vote"} ELSE {}]

\* TestSet ids by name (lines 81-83 and 88-90).
TestSetsDB == [unauthenticated |-> 1, authenticated |-> 2]

\* ------------------------------------------------------------- token values
\* f"{metric.external_id}:{sample_1_id}:{sample_2_id}": a string is a sequence
\* of symbols, Colon is the separator, an id is one non-zero symbol.
Colon == 0
Serialize(m, a, b) == <<m, Colon, a, Colon, b>>

\* str.split(":", 1): the parts before and after the first colon (the whole
\* string alone when there is none).
\* (Variant: the last colon, as str.rsplit would find.)
LastColon(s) ==
    IF \E i \in 1..Len(s) : s[i] = Colon
    THEN CHOOSE i \in 1..Len(s) : s[i] = Colon /\ \A j \in (i + 1)..Len(s) : s[j] # Colon
    ELSE 0
FirstColon(s) ==
    IF \E i \in 1..Len(s) : s[i] = Colon
    THEN CHOOSE i \in 1..Len(s) : s[i] = Colon /\ \A j \in 1..(i - 1) : s[j] # Colon
    ELSE 0
Split1(s) ==
    IF FirstColon(s) = 0
    THEN <<s>>
    ELSE <<SubSeq(s, 1, FirstColon(s) - 1), SubSeq(s, FirstColon(s) + 1, Len(s))>>

\* Lines 274-275: metric_id, sample_1_id, sample_2_id of a token value. The
\* unpacking needs exactly two parts each time and uuid.UUID one id each.
ParseOK(v) ==
    /\ Len(Split1(v)) = 2
    /\ Len(Split1(v)[1]) = 1
    /\ Len(Split1(Split1(v)[2])) = 2
    /\ Len(Split1(Split1(v)[2])[1]) = 1
    /\ Len(Split1(Split1(v)[2])[2]) = 1
ParseToken(v) ==
    <<Split1(v)[1][1], Split1(Split1(v)[2])[1][1], Split1(Split1(v)[2])[2][1]>>

\* ------------------------------------------------------------------ rankings
\* ordered_sample_ids: each position is a bare sample id (tie = FALSE, one
\* id) or a list of sample ids (tie = TRUE).
RECURSIVE SeqsUpTo(_, _)
SeqsUpTo(S, n) ==
    IF n = 0 THEN {<<>>}
    ELSE SeqsUpTo(S, n - 1)
         \cup {Append(q, x) : q \in {p \in SeqsUpTo(S, n - 1) : Len(p) = n - 1}, x \in S}

Bare(s) == [tie |-> FALSE, ids |-> <<s>>]
Group(q) == [tie |-> TRUE, ids |-> q]
Positions(maxTie) ==
    {Bare(s) : s \in Samples} \cup {Group(q) : q \in SeqsUpTo(Samples, maxTie)}
Rankings(maxLen, maxTie) == SeqsUpTo(Positions(maxTie), maxLen)

\* Lines 288-296: the (rank, sample) pairs of a ranking, in order. lookup is
\* sample_lookup: comparison_sample_id -> Sample row.
RECURSIVE RanksFrom(_, _, _)
RanksFrom(ordered, idx, lookup) ==
    IF idx >= Len(ordered) THEN <<>>
    ELSE LET rank == idx + 1
             sample_or_samples == ordered[idx + 1]
             here == [k \in 1..Len(sample_or_samples.ids) |->
                         <<rank, lookup[sample_or_samples.ids[k]]>>]
         IN  here \o RanksFrom(ordered, idx + 1, lookup)

RankedIds(ordered) ==
    UNION {{ordered[i].ids[k] : k \in 1..Len(ordered[i].ids)} : i \in 1..Len(ordered)}

\* --------------------------------------------------------------------- state
VARIABLES
    cache,       \* Redis token keys: token -> [val, ttl]; ttl 0 is an absent key
    lock,        \* Redis key elo_calculation_in_progress: remaining ttl, 0 absent
    queue,       \* Celery tasks sent, in order; seen: ledger rows a started task read
    ledger,      \* committed Comparison rows, each with its ComparisonRank rows
    samplesDB,   \* comparison_sample_ids with a Sample row in storage
    testSetsDB,  \* names of the TestSet rows in storage
    minted,      \* number of tokens uuid4 has produced so far
    pool,        \* storage connections established: the plans prepared on each
    batchOut,    \* the last batch request: its inputs, accesses, writes and response
    req,         \* the vote requests: position and locals of each handler run
    fate,        \* history: what became of each token
    bound,       \* history: the triple each token was issued for
    epoch        \* history: number of expiries of the recompute lock so far

vars == <<cache, lock, queue, ledger, samplesDB, testSetsDB, minted, pool, batchOut,
          req, fate, bound, epoch>>

Absent == [val |-> <<>>, ttl |-> 0]
None == [id |-> 0]

\* redis GET of a token key (absent for a key that was never written).
CacheGet(t) == IF t \in Tokens THEN cache[t] ELSE Absent

ReqInit ==
    [pc |-> "idle", user_uuid |-> Anonymous, can_vote |-> TRUE, token |-> BogusToken,
     token_data |-> <<>>, cause |-> "none", pair |-> <<>>, found |-> {}, ordered |-> <<>>,
     ranks |-> <<>>, metric |-> None, test_set_id |-> 0, lock |-> "none",
     epoch |-> 0, status |-> 0, detail |-> "", body |-> <<>>]

NoRequest == [user_id |-> Anonymous, batch_size |-> 0, metric_id |-> 0, execOK |-> TRUE]
NoBatch == [request |-> NoRequest, status |-> 0, detail |-> "", storage |-> <<>>,
            written |-> <<>>, issued |-> {}, comparisons |-> <<>>]

Init ==
    /\ cache = [t \in Tokens |-> Absent]
    /\ lock = 0
    /\ queue = <<>>
    /\ ledger = <<>>
    /\ samplesDB = Samples
    /\ testSetsDB = DOMAIN TestSetsDB
    /\ minted = 0
    /\ pool = <<>>
    /\ batchOut = NoBatch
    /\ req = [r \in Requests |-> ReqInit]
    /\ fate = [t \in Tokens |-> "unissued"]
    /\ bound = [t \in Tokens |-> <<>>]
    /\ epoch = 0

\* ------------------------------------------------------ prepare_statements
\* The two named plans, and the name a batch request executes (lines 124-129
\* of comparison.py).
PlanNames == {"comparison_batch_query", "comparison_batch_query_priority"}
QueryName(priority) ==
    IF priority THEN "comparison_batch_query_priority" ELSE "comparison_batch_query"

\* lifespan.py lines 42-60: the plans a new connection ends with. fail is the
\* PREPARE that raises (0: none, 1: the first, 2: the second). The exception
\* is caught and the connection rolled back; whether the rollback discards a
\* first PREPARE that succeeded is left to the server.
PrepareOutcomes(fail) ==
    IF fail = 0 THEN {PlanNames}
    ELSE IF fail = 1 THEN {{}}
    ELSE {{}, {"comparison_batch_query"}}

\* lifespan.py lines 40-62: the "connect" listener runs on a new connection,
\* never raises, and the connection joins the pool.
Connect(fail) ==
    /\ Len(pool) < MaxConns
    /\ \E plans \in PrepareOutcomes(fail) :
           pool' = Append(pool, [plans |-> plans, failed |-> fail])
    /\ UNCHANGED <<cache, lock, queue, ledger, samplesDB, testSetsDB, minted, batchOut,
                   req, fate, bound, epoch>>

\* ------------------------------------------------- get_comparison_batch
\* A result row of the executed plan: its column count and the pair in
\* columns 0 and 2.
ColCounts == {4, 5, 10, 11}
RowSet == {row \in [n : ColCounts, s1 : samplesDB, s2 : samplesDB] : row.s1 # row.s2}

\* Lines 197-202: uuid4 and SETEX of the serialised triple under the new token.
\* (Variants: a ten times longer expiry; the two samples stored in the other
\* order.)
MintTokenSwapped(c, token, metric_id, row) ==
    [c EXCEPT ![token] = [val |-> Serialize(metric_id, row.s2, row.s1), ttl |-> TokenTTL]]
MintTokenLong(c, token, metric_id, row) ==
    [c EXCEPT ![token] = [val |-> Serialize(metric_id, row.s1, row.s2), ttl |-> 10 * TokenTTL]]
MintToken(c, token, metric_id, row) ==
    [c EXCEPT ![token] = [val |-> Serialize(metric_id, row.s1, row.s2), ttl |-> TokenTTL]]

\* Lines 147-235: the row loop from row i on. acc carries the cache, the token
\* counter and comparison_tokens; row[4] of a row with fewer than 5 columns
\* raises IndexError, a priority row with fewer than 11 is skipped.
RECURSIVE RowLoop(_, _, _, _, _)
RowLoop(rows, i, metric_id, priority, acc) ==
    IF i > Len(rows) THEN acc
    ELSE IF rows[i].n < 5 THEN [acc EXCEPT !.status = 500, !.detail = "Internal Server Error"]
    ELSE IF priority /\ rows[i].n < 11 THEN RowLoop(rows, i + 1, metric_id, priority, acc)
    ELSE LET token == acc.minted + 1
         IN  RowLoop(rows, i + 1, metric_id, priority,
                 [acc EXCEPT
                     !.cache = MintToken(acc.cache, token, metric_id, rows[i]),
                     !.minted = token,
                     !.comparisons = Append(acc.comparisons,
                         [token |-> token, metric_id |-> metric_id,
                          samples |-> <<rows[i].s1, rows[i].s2>>])])

\* Lines 79-145: the checks before the row loop, in the code's order: the
\* status and detail of the first one that fails (0 when none does) and the
\* storage accesses made up to there.
\* (Variants: the metric lookup's result is not checked; a failed plan falls
\* back to the other strategy's plan.)
BatchChecksNoMetric(user_id, batch_size, metric_id, execOK) ==
    LET name == IF user_id = Anonymous THEN "unauthenticated" ELSE "authenticated"
        pre == IF user_id = Anonymous THEN <<"test_set", "session">>
               ELSE <<"test_set", "user", "session">>
    IN  IF name \notin testSetsDB \/ (user_id # Anonymous /\ user_id \notin UsersDB)
        THEN [status |-> 500, detail |-> "Internal Server Error", storage |-> <<"test_set">>]
        ELSE IF batch_size > MAX_BATCH_SIZE
        THEN [status |-> 406, detail |-> "Invalid batch size", storage |-> pre]
        ELSE IF ~execOK
        THEN [status |-> 500, detail |-> "Failed to retrieve comparison batch",
              storage |-> pre \o <<"metric", "plan">>]
        ELSE [status |-> 0, detail |-> "", storage |-> pre \o <<"metric", "plan">>]
BatchChecksFallback(user_id, batch_size, metric_id, execOK) ==
    LET name == IF user_id = Anonymous THEN "unauthenticated" ELSE "authenticated"
        pre == IF user_id = Anonymous THEN <<"test_set", "session">>
               ELSE <<"test_set", "user", "session">>
    IN  IF name \notin testSetsDB \/ (user_id # Anonymous /\ user_id \notin UsersDB)
        THEN [status |-> 500, detail |-> "Internal Server Error", storage |-> <<"test_set">>]
        ELSE IF batch_size > MAX_BATCH_SIZE
        THEN [status |-> 406, detail |-> "Invalid batch size", storage |-> pre]
        ELSE IF metric_id \notin MetricsDB
        THEN [status |-> 400, detail |-> "Invalid metric id", storage |-> pre \o <<"metric">>]
        ELSE IF ~execOK
        THEN [status |-> 0, detail |-> "", storage |-> pre \o <<"metric", "plan", "plan">>]
        ELSE [status |-> 0, detail |-> "", storage |-> pre \o <<"metric", "plan">>]
BatchChecks(user_id, batch_size, metric_id, execOK) ==
    LET name == IF user_id = Anonymous THEN "unauthenticated" ELSE "authenticated"
    IN  IF name \notin testSetsDB
        THEN [status |-> 500, detail |-> "Default " \o name \o " test set not found",
              storage |-> <<"test_set">>]
        ELSE IF user_id # Anonymous /\ user_id \notin UsersDB
        THEN [status |-> 404, detail |-> "Authenticated user not found",
              storage |-> <<"test_set", "user">>]
        ELSE LET pre == IF user_id = Anonymous THEN <<"test_set", "session">>
                        ELSE <<"test_set", "user", "session">>
             IN  IF batch_size > MAX_BATCH_SIZE
                 THEN [status |-> 406, detail |-> "Invalid batch size", storage |-> pre]
                 ELSE IF metric_id \notin MetricsDB
                 THEN [status |-> 400, detail |-> "Invalid metric id",
                       storage |-> pre \o <<"metric">>]
                 ELSE IF ~execOK
                 THEN [status |-> 500, detail |-> "Failed to retrieve comparison batch",
                       storage |-> pre \o <<"metric", "plan">>]
                 ELSE [status |-> 0, detail |-> "", storage |-> pre \o <<"metric", "plan">>]

BatchSizes == (0..MaxRows) \cup {MAX_BATCH_SIZE + 1}

\* The session of get_managed_session commits when the handler returns and
\* is rolled back when it raises: the writes of the request that become
\* durable.
IsWrite(access) == access = "session"
BatchCommitted(status, storage) ==
    IF status = 200 THEN SelectSeq(storage, IsWrite) ELSE <<>>

GetComparisonBatch(user_id, batch_size, metric_id, priority, execOK, rows) ==
    LET chk == BatchChecks(user_id, batch_size, metric_id, execOK)
        request == [user_id |-> user_id, batch_size |-> batch_size,
                    metric_id |-> metric_id, execOK |-> execOK]
        run == RowLoop(rows, 1, metric_id, priority,
                   [status |-> 200, detail |-> "", cache |-> cache, minted |-> minted,
                    comparisons |-> <<>>])
    IN  /\ Len(rows) <= batch_size
        /\ minted + Len(rows) <= MaxTokens
        /\ IF chk.status # 0
           THEN /\ batchOut' = [request |-> request,
                                status |-> chk.status, detail |-> chk.detail,
                                storage |-> chk.storage,
                                written |-> BatchCommitted(chk.status, chk.storage),
                                issued |-> {},
                                comparisons |-> <<>>]
                /\ UNCHANGED <<cache, minted, fate, bound>>
           ELSE /\ cache' = run.cache
                /\ minted' = run.minted
                /\ fate' = [t \in Tokens |->
                               IF t > minted /\ t <= run.minted THEN "live" ELSE fate[t]]
                /\ bound' = [t \in Tokens |->
                                IF t > minted /\ t <= run.minted
                                THEN <<metric_id, run.comparisons[t - minted].samples[1],
                                       run.comparisons[t - minted].samples[2]>>
                                ELSE bound[t]]
                /\ batchOut' = [request |-> request,
                                status |-> run.status, detail |-> run.detail,
                                storage |-> chk.storage,
                                written |-> BatchCommitted(run.status, chk.storage),
                                issued |-> (minted + 1)..run.minted,
                                comparisons |-> IF run.status = 200 THEN run.comparisons
                                                ELSE <<>>]
        /\ UNCHANGED <<pool, lock, queue, ledger, samplesDB, testSetsDB, req, epoch>>

\* ------------------------------------------------------- post_comparison
\* Lines 251-264: can_vote of the resolved caller.
\* (Variants: anonymous callers refused; nobody refused.)
CanVoteAuthenticatedOnly(user_uuid) ==
    IF user_uuid # Anonymous THEN "voting:vote" \in UserRow(user_uuid).scopes ELSE FALSE
CanVoteAnyone(user_uuid) == TRUE
CanVote(user_uuid) ==
    IF user_uuid # Anonymous THEN "voting:vote" \in UserRow(user_uuid).scopes ELSE TRUE

\* Line 267, redis.getdel(key): the value read, and the store afterwards.
\* (Variant: a GET that leaves the key in place.)
GetDelValue(token) == CacheGet(token).val
GetStoreOnly(token) == cache
GetDelStore(token) == [t \in Tokens |-> IF t = token THEN Absent ELSE cache[t]]

\* Lines 268-272: the error raised for a token whose key holds no value.
\* (Variant: an expired token answered differently.)
NotFoundOrGone(token) ==
    IF token \in Tokens /\ fate[token] = "expired"
    THEN [status |-> 410, detail |-> "Comparison expired"]
    ELSE [status |-> 404, detail |-> "No active comparisons found"]
NotFoundError(token) == [status |-> 404, detail |-> "No active comparisons found"]

Failed(q, status, detail) == [q EXCEPT !.pc = "done", !.status = status, !.detail = detail]

\* Lines 251-272: resolve the caller, then redeem the token. User.one() raises
\* for an authenticated caller without a User row.
Redeem(r, user_uuid, token) ==
    /\ req[r].pc = "idle"
    /\ LET q == [req[r] EXCEPT !.user_uuid = user_uuid, !.token = token]
       IN  IF user_uuid # Anonymous /\ user_uuid \notin UsersDB
           THEN /\ req' = [req EXCEPT ![r] = Failed(q, 500, "Internal Server Error")]
                /\ UNCHANGED <<cache, fate>>
           ELSE LET token_data == GetDelValue(token)
                    qq == [q EXCEPT !.can_vote = CanVote(user_uuid),
                                    !.token_data = token_data]
                IN  /\ cache' = GetDelStore(token)
                    /\ IF token_data = <<>>
                       THEN /\ req' = [req EXCEPT ![r] =
                                   Failed([qq EXCEPT !.cause =
                                              IF token \in Tokens THEN fate[token]
                                              ELSE "unissued"],
                                          NotFoundError(token).status,
                                          NotFoundError(token).detail)]
                            /\ UNCHANGED fate
                       ELSE /\ req' = [req EXCEPT ![r] = [qq EXCEPT !.pc = "load"]]
                            /\ fate' = [fate EXCEPT ![token] = "redeemed"]
    /\ UNCHANGED <<pool, lock, queue, ledger, samplesDB, testSetsDB, minted, batchOut, bound, epoch>>

\* Lines 276-284: the Sample rows of the bound pair that storage holds.
\* (Variant: a lookup over every Sample row.)
FoundAnySample(sample_1_id, sample_2_id) == samplesDB
FoundSamples(sample_1_id, sample_2_id) == {sample_1_id, sample_2_id} \cap samplesDB

\* Lines 304-309: test set of the first sample that carries one.
\* (Variant: the second sample asked first.)
TestSetOfSecondFirst(sample_1, sample_2) ==
    IF sample_2.test_set_id # 0 THEN sample_2.test_set_id
    ELSE IF sample_1.test_set_id # 0 THEN sample_1.test_set_id
    ELSE 0
TestSetOf(sample_1, sample_2) ==
    IF sample_1.test_set_id # 0 THEN sample_1.test_set_id
    ELSE IF sample_2.test_set_id # 0 THEN sample_2.test_set_id
    ELSE 0

\* Lines 274-309: parse the token value, load the pair, expand the ranking,
\* load the metric, derive the test set. A KeyError of sample_lookup (a bound
\* sample without a row, a ranked id outside the pair) ends the request.
LoadSamples(r, ordered) ==
    /\ req[r].pc = "load"
    /\ LET q == [req[r] EXCEPT !.ordered = ordered]
           v == q.token_data
       IN  IF ~ParseOK(v)
           THEN req' = [req EXCEPT ![r] = Failed(q, 500, "Internal Server Error")]
           ELSE LET metric_id == ParseToken(v)[1]
                    sample_1_id == ParseToken(v)[2]
                    sample_2_id == ParseToken(v)[3]
                    found == FoundSamples(sample_1_id, sample_2_id)
                    sample_lookup == [e \in found |-> SampleRow(e)]
                    qq == [q EXCEPT !.pair = <<sample_1_id, sample_2_id>>, !.found = found]
                IN  IF ~({sample_1_id, sample_2_id} \subseteq found)
                       \/ ~(RankedIds(ordered) \subseteq found)
                    THEN req' = [req EXCEPT ![r] = Failed(qq, 500, "Internal Server Error")]
                    ELSE req' = [req EXCEPT ![r] = [qq EXCEPT
                             !.pc = IF q.can_vote THEN "vote" ELSE "return",
                             !.ranks = RanksFrom(ordered, 0, sample_lookup),
                             !.metric = IF metric_id \in MetricsDB THEN MetricRow(metric_id)
                                        ELSE None,
                             !.test_set_id = TestSetOf(sample_lookup[sample_1_id],
                                                       sample_lookup[sample_2_id])]]
    /\ UNCHANGED <<pool, cache, lock, queue, ledger, samplesDB, testSetsDB, minted, batchOut,
                   fate, bound, epoch>>

\* Lines 314-332: the Comparison and its ComparisonRank rows added to the
\* request's session.
PendingComparison(r) ==
    [by |-> r,
     token |-> req[r].token,
     user_id |-> IF req[r].user_uuid # Anonymous THEN UserRow(req[r].user_uuid).id ELSE 0,
     metric_id |-> req[r].metric.id,
     test_set_id |-> req[r].test_set_id,
     ranks |-> [i \in 1..Len(req[r].ranks) |->
                   [sample_id |-> req[r].ranks[i][2].id, rank |-> req[r].ranks[i][1]]]]

\* Line 335, redis.set(..., ex=300, nx=True): set only when the key is absent.
\* (Variant: a SET without nx.)
LockAlwaysSet == TRUE
LockAcquired == lock = 0

\* Lines 321-322, db.add(comparison) and db.flush(): the durable rows
\* afterwards. The INSERT is sent inside the session's transaction, so
\* nothing is durable yet.
\* (Variant: a commit in place of the flush.)
FlushCommits(r) == Append(ledger, [PendingComparison(r) EXCEPT !.ranks = <<>>])
FlushComparison(r) == ledger

\* Lines 338-339: a lock that is already held is only logged, and the
\* handler goes on to its response.
\* (Variant: the held lock reported as a conflict.)
AfterLockHeldFails == [pc |-> "done", status |-> 409, detail |-> "Elo calculation in progress"]
AfterLockHeld == [pc |-> "return", status |-> 0, detail |-> ""]

\* Lines 312-335 of an eligible caller: build the rows, then try the lock.
\* metric.id of a missing metric raises AttributeError.
RecordVote(r) ==
    /\ req[r].pc = "vote"
    /\ IF req[r].metric = None
       THEN /\ req' = [req EXCEPT ![r] = Failed(@, 500, "Internal Server Error")]
            /\ UNCHANGED <<lock, ledger>>
       ELSE IF LockAcquired
       THEN /\ lock' = LockTTL
            /\ ledger' = FlushComparison(r)
            /\ req' = [req EXCEPT ![r] = [@ EXCEPT !.pc = "enqueue", !.lock = "acquired",
                                                   !.epoch = epoch]]
       ELSE /\ req' = [req EXCEPT ![r] = [@ EXCEPT !.pc = AfterLockHeld.pc,
                                                   !.status = AfterLockHeld.status,
                                                   !.detail = AfterLockHeld.detail,
                                                   !.lock = "held", !.epoch = epoch]]
            /\ ledger' = FlushComparison(r)
            /\ UNCHANGED lock
    /\ UNCHANGED <<pool, cache, queue, samplesDB, testSetsDB, minted, batchOut, fate, bound, epoch>>

\* Lines 336-337: send_task("elo_calculation").
Enqueue(r) ==
    /\ req[r].pc = "enqueue"
    /\ queue' = Append(queue, [task |-> "elo_calculation", by |-> r,
                                started |-> FALSE, seen |-> 0])
    /\ req' = [req EXCEPT ![r] = [@ EXCEPT !.pc = "return"]]
    /\ UNCHANGED <<pool, cache, lock, ledger, samplesDB, testSetsDB, minted, batchOut, fate, bound, epoch>>

\* The session of get_managed_session commits when the handler returns: the
\* rows the request added become durable together.
CommitSession(r) ==
    IF req[r].can_vote THEN Append(ledger, PendingComparison(r)) ELSE ledger

\* Lines 342-345: both samples' model names.
\* (Variant: names returned to voters only.)
ResponseBodyOfVoters(r) ==
    IF req[r].can_vote
    THEN <<SampleRow(req[r].pair[1]).model, SampleRow(req[r].pair[2]).model>>
    ELSE <<>>
ResponseBody(r) ==
    <<SampleRow(req[r].pair[1]).model, SampleRow(req[r].pair[2]).model>>

\* Lines 341-345: the response, then the end of the request.
Return(r) ==
    /\ req[r].pc = "return"
    /\ req' = [req EXCEPT ![r] = [@ EXCEPT
           !.pc = "done", !.status = 200,
           !.body = ResponseBody(r)]]
    /\ ledger' = CommitSession(r)
    /\ UNCHANGED <<pool, cache, lock, queue, samplesDB, testSetsDB, minted, batchOut, fate, bound, epoch>>

\* The session of get_managed_session is rolled back when the handler
\* raises: none of the rows the request added becomes durable.
RollbackSession(r) == ledger

\* An exception raised by a step of a request that passed validation: the
\* insert of the rank rows or the SET of the lock (lines 325-335), send_task
\* (line 337), or the building of the response (lines 342-345).
RaiseSteps(pc) ==
    IF pc = "vote" THEN {"rank insert", "lock"}
    ELSE IF pc = "enqueue" THEN {"enqueue"}
    ELSE IF pc = "return" THEN {"response"}
    ELSE {}
Raise(r, step) ==
    /\ step \in RaiseSteps(req[r].pc)
    /\ req' = [req EXCEPT ![r] =
           Failed([@ EXCEPT !.cause = step], 500, "Internal Server Error")]
    /\ ledger' = RollbackSession(r)
    /\ UNCHANGED <<pool, cache, lock, queue, samplesDB, testSetsDB, minted, batchOut, fate,
                   bound, epoch>>

\* The process serving a request dies between the redemption of the token
\* and the end of the handler: no response, and the session never commits.
Crash(r) ==
    /\ req[r].pc \in {"load", "vote", "enqueue", "return"}
    /\ req' = [req EXCEPT ![r] = [@ EXCEPT !.pc = "crashed"]]
    /\ UNCHANGED <<pool, cache, lock, queue, ledger, samplesDB, testSetsDB, minted, batchOut,
                   fate, bound, epoch>>

\* A worker starts the oldest task that has not started: elo_calculation
\* carries no payload and reads the whole ledger as it is then.
Pending == {i \in 1..Len(queue) : ~queue[i].started}
RunJob ==
    /\ Pending # {}
    /\ LET i == CHOOSE k \in Pending : \A l \in Pending : k <= l
       IN  queue' = [queue EXCEPT ![i] = [@ EXCEPT !.started = TRUE, !.seen = Len(ledger)]]
    /\ UNCHANGED <<pool, cache, lock, ledger, samplesDB, testSetsDB, minted, batchOut, req,
                   fate, bound, epoch>>

\* ------------------------------------------------------------- environment
\* Time passes until the next key expires: Redis drops a key whose ttl ran out.
Ttls == {cache[t].ttl : t \in Tokens} \cup {lock}
NextExpiry == CHOOSE d \in Ttls \ {0} : \A e \in Ttls \ {0} : d <= e
Tick ==
    /\ Ttls # {0}
    /\ cache' = [t \in Tokens |->
                    IF cache[t].ttl > NextExpiry
                    THEN [cache[t] EXCEPT !.ttl = @ - NextExpiry]
                    ELSE Absent]
    /\ lock' = IF lock > NextExpiry THEN lock - NextExpiry ELSE 0
    /\ fate' = [t \in Tokens |->
                   IF cache[t].ttl > 0 /\ cache[t].ttl <= NextExpiry THEN "expired"
                   ELSE fate[t]]
    /\ epoch' = IF lock > 0 /\ lock <= NextExpiry THEN epoch + 1 ELSE epoch
    /\ UNCHANGED <<pool, queue, ledger, samplesDB, testSetsDB, minted, batchOut, req, bound>>

\* A Sample row disappears from storage (reference data is maintained by
\* other pipelines).
RemoveSample(s) ==
    /\ s \in samplesDB
    /\ Cardinality(Samples \ samplesDB) < MaxRemoved
    /\ samplesDB' = samplesDB \ {s}
    /\ UNCHANGED <<pool, cache, lock, queue, ledger, testSetsDB, minted, batchOut, req, fate,
                   bound, epoch>>

\* ------------------------------------------------------------ specifications
\* A batch request with its inputs drawn from the given sets: caller, batch
\* size, metric id, the strategy setting read, whether EXECUTE succeeds, and
\* the rows the plan returns (column counts N, pairs P), while fewer than T
\* tokens exist.
BatchOf(U, B, M, S, E, N, P, T) ==
    /\ minted < T
    /\ \E user_id \in U, batch_size \in B, metric_id \in M, priority \in S, execOK \in E,
       rows \in SeqsUpTo({row \in RowSet : row.n \in N /\ <<row.s1, row.s2>> \in P}, MaxRows) :
           GetComparisonBatch(user_id, batch_size, metric_id, priority, execOK, rows)

AllPairs == Samples \X Samples
Presentable == {BogusToken} \cup (1..minted)

\* Vote requests are interchangeable: they are numbered in the order they start.
Started(r) == IF r = 1 THEN TRUE ELSE req[r - 1].pc # "idle"

\* Concurrent vote requests against tokens of well-formed batches over one pair.
Next ==
    \/ BatchOf({Anonymous}, {MaxRows}, MetricsDB, BOOLEAN, {TRUE}, {5, 11}, {<<1, 2>>}, MaxTokens)
    \/ \E r \in Requests, user_uuid \in Callers, token \in Presentable :
           Started(r) /\ Redeem(r, user_uuid, token)
    \/ \E r \in Requests, ordered \in Rankings(RaceRankLen, RaceTie) : LoadSamples(r, ordered)
    \/ \E r \in Requests : RecordVote(r)
    \/ \E r \in Requests : Enqueue(r)
    \/ \E r \in Requests : Return(r)
    \/ Tick
    \/ \E s \in Samples : RemoveSample(s)

\* One vote request with any ranking, against tokens of any pair.
VoteNext ==
    \/ BatchOf({Anonymous}, {MaxRows}, MetricsDB, BOOLEAN, {TRUE}, {5, 11}, AllPairs, 1)
    \/ \E user_uuid \in Callers, token \in Presentable : Redeem(1, user_uuid, token)
    \/ \E ordered \in Rankings(MaxRankLen, MaxTie) : LoadSamples(1, ordered)
    \/ RecordVote(1)
    \/ Enqueue(1)
    \/ Return(1)
    \/ Tick
    \/ \E s \in Samples : RemoveSample(s)

VoteSpec == Init /\ [][VoteNext]_vars

\* A TestSet row disappears from storage.
RemoveTestSet(name) ==
    /\ name \in testSetsDB
    /\ Cardinality(DOMAIN TestSetsDB \ testSetsDB) < MaxRemoved
    /\ testSetsDB' = testSetsDB \ {name}
    /\ UNCHANGED <<pool, cache, lock, queue, ledger, samplesDB, minted, batchOut, req, fate,
                   bound, epoch>>

\* Batch requests of any caller, size, metric and strategy whose plan fails,
\* is not reached or returns nothing; batch requests whose plan returns rows
\* of any shape; and one anonymous vote request redeeming the tokens.
WideCallers == {Anonymous, 1, 3}
WideSizes == {BatchRows, MAX_BATCH_SIZE + 1}
WidePairs == {<<1, 2>>, <<2, 3>>}
WideRows ==
    SeqsUpTo({row \in RowSet : row.n \in {4, 5, 11} /\ <<row.s1, row.s2>> \in WidePairs},
             BatchRows)
BatchNext ==
    \/ \E user_id \in WideCallers, batch_size \in WideSizes, metric_id \in MetricIds,
          execOK \in BOOLEAN :
           GetComparisonBatch(user_id, batch_size, metric_id, FALSE, execOK, <<>>)
    \/ \E user_id \in WideCallers \cap ({Anonymous} \cup UsersDB), metric_id \in MetricsDB,
          priority \in BOOLEAN, rows \in WideRows \ {<<>>} :
           GetComparisonBatch(user_id, BatchRows, metric_id, priority, TRUE, rows)
    \/ \E token \in Presentable : Redeem(1, Anonymous, token)
    \/ \E ordered \in Rankings(RaceRankLen, RaceTie) : LoadSamples(1, ordered)
    \/ RecordVote(1)
    \/ Enqueue(1)
    \/ Return(1)
    \/ Tick
    \/ \E name \in DOMAIN TestSetsDB : RemoveTestSet(name)

BatchSpec == Init /\ [][BatchNext]_vars

\* One vote request with any ranking, any step of which may raise.
FaultSteps == {"rank insert", "lock", "enqueue", "response"}
FaultNext ==
    \/ BatchOf({Anonymous}, {MaxRows}, MetricsDB, BOOLEAN, {TRUE}, {5, 11}, AllPairs, 1)
    \/ \E user_uuid \in Callers, token \in Presentable : Redeem(1, user_uuid, token)
    \/ \E ordered \in Rankings(MaxRankLen, MaxTie) : LoadSamples(1, ordered)
    \/ RecordVote(1)
    \/ Enqueue(1)
    \/ Return(1)
    \/ \E step \in FaultSteps : Raise(1, step)
    \/ Tick

FaultSpec == Init /\ [][FaultNext]_vars

\* Concurrent anonymous vote requests that may die or fail at send_task, and
\* the worker running the tasks sent.
JobNext ==
    \/ BatchOf({Anonymous}, {MaxRows}, MetricsDB, {FALSE}, {TRUE}, {5}, {<<1, 2>>}, MaxTokens)
    \/ \E r \in Requests, token \in 1..minted : Started(r) /\ Redeem(r, Anonymous, token)
    \/ \E r \in Requests, ordered \in Rankings(RaceRankLen, RaceTie) : LoadSamples(r, ordered)
    \/ \E r \in Requests : RecordVote(r)
    \/ \E r \in Requests : Enqueue(r)
    \/ \E r \in Requests : Return(r)
    \/ \E r \in Requests : Raise(r, "enqueue")
    \/ \E r \in Requests : Crash(r)
    \/ RunJob
    \/ Tick

JobSpec == Init /\ [][JobNext]_vars

\* Connections being established, with or without a failing PREPARE, and
\* batch requests that run on one of them: EXECUTE succeeds when the plan of
\* the strategy in force was prepared on the connection.
PoolNext ==
    \/ \E fail \in 0..2 : Connect(fail)
    \/ \E c \in 1..Len(pool), priority \in BOOLEAN :
           BatchOf({Anonymous}, {MaxRows}, MetricsDB, {priority},
                   {QueryName(priority) \in pool[c].plans}, {5, 11}, {<<1, 2>>}, MaxTokens)
    \/ \E token \in Presentable : Redeem(1, Anonymous, token)
    \/ \E ordered \in Rankings(RaceRankLen, RaceTie) : LoadSamples(1, ordered)
    \/ RecordVote(1)
    \/ Enqueue(1)
    \/ Return(1)
    \/ Tick

PoolSpec == Init /\ [][PoolNext]_vars

Spec == Init /\ [][Next]_vars

\* ------------------------------------------------------------------- claims
\* Helpers of the formulas below.
Issued == 1..minted
Resolved(r) ==
    req[r].pc # "idle" /\ (req[r].user_uuid = Anonymous \/ req[r].user_uuid \in UsersDB)
Obtained(r) == Resolved(r) /\ req[r].token_data # <<>>
Missed(r) == Resolved(r) /\ req[r].token_data = <<>>
RowsBy(r) == {i \in 1..Len(ledger) : ledger[i].by = r}
JobsBy(R) == {i \in 1..Len(queue) : queue[i].by \in R}
Redeemers(t) == {r \in Requests : Obtained(r) /\ req[r].token = t}
Presenters(t) == {r \in Requests : Resolved(r) /\ req[r].token = t}

\* C1: of the requests that redeem an issued token, at most one obtains its
\* value, and that value is the triple the token was issued for; exactly one
\* does when the token was presented and did not expire first; every other
\* request presenting it has ended with 404 "No active comparisons found".
C1_SingleRedemption ==
    \A t \in Issued :
        /\ Cardinality(Redeemers(t)) <= 1
        /\ \A r \in Redeemers(t) :
               req[r].token_data = Serialize(bound[t][1], bound[t][2], bound[t][3])
        /\ (Presenters(t) # {} /\ fate[t] # "expired") => Cardinality(Redeemers(t)) = 1
        /\ \A r \in Presenters(t) \ Redeemers(t) :
               /\ req[r].pc = "done"
               /\ req[r].status = 404
               /\ req[r].detail = "No active comparisons found"

\* Two requests presented the same issued token: one obtained the triple and
\* the other was answered 404.
C1_Witness ==
    \E t \in Issued : \E r1 \in Requests, r2 \in Requests :
        /\ r1 # r2
        /\ req[r1].token = t /\ Obtained(r1)
        /\ req[r2].token = t /\ Missed(r2) /\ req[r2].status = 404

\* C2: the ledger holds at most one Comparison per issued token and at most
\* one per vote request, and every Comparison is for an issued token.
C2_OneComparisonPerToken ==
    \A i \in 1..Len(ledger) :
        /\ ledger[i].token \in Issued
        /\ \A j \in 1..Len(ledger) :
               (ledger[i].token = ledger[j].token \/ ledger[i].by = ledger[j].by) => i = j

\* A token has its Comparison in the ledger and a second request that
\* presented the same token has finished.
C2_Witness ==
    \E i \in 1..Len(ledger) : \E r \in Requests :
        /\ r # ledger[i].by
        /\ req[r].token = ledger[i].token
        /\ req[r].pc = "done"

\* C3: among the requests that reached the lock in one window (between two
\* expiries of the lock key) exactly one acquired it; the tasks sent by them
\* are a single "elo_calculation" sent by the acquirer once it has passed
\* send_task, and none before; the others sent nothing.
ReachedLock(e) == {r \in Requests : req[r].lock # "none" /\ req[r].epoch = e}
Acquirers(e) == {r \in ReachedLock(e) : req[r].lock = "acquired"}
Loaded(r) == Obtained(r) /\ req[r].pc \notin {"idle", "load"}
BoundPair(t) == {bound[t][2], bound[t][3]}
RankSamples(row) == {row.ranks[k].sample_id : k \in 1..Len(row.ranks)}
C4_RanksWithinPair ==
    /\ \A i \in 1..Len(ledger) :
           RankSamples(ledger[i]) \subseteq {SampleRow(e).id : e \in BoundPair(ledger[i].token)}
    /\ \A r \in Requests :
           (Loaded(r) /\ ~(RankedIds(req[r].ordered) \subseteq BoundPair(req[r].token))) =>
               /\ RowsBy(r) = {}
               /\ req[r].pc = "done"
               /\ req[r].status = 500

\* A committed Comparison whose two rank rows are the two samples of the pair.
C4_Witness ==
    \E i \in 1..Len(ledger) :
        /\ Len(ledger[i].ranks) = 2
        /\ RankSamples(ledger[i]) = {SampleRow(e).id : e \in BoundPair(ledger[i].token)}

\* C5: every Comparison in the ledger has at least one ComparisonRank row and
\* no sample has two rank rows in the same Comparison.
C5_RanksOnePerSample ==
    \A i \in 1..Len(ledger) :
        /\ Len(ledger[i].ranks) >= 1
        /\ \A k \in 1..Len(ledger[i].ranks), l \in 1..Len(ledger[i].ranks) :
               ledger[i].ranks[k].sample_id = ledger[i].ranks[l].sample_id => k = l

\* C6: the rank stored for a sample is the 1-based index of a position of
\* ordered_sample_ids that holds it, and the rank values of a stored
\* Comparison are 1, 2, ... without a gap.
RankValues(row) == {row.ranks[k].rank : k \in 1..Len(row.ranks)}
C6_RanksFromOne ==
    \A i \in 1..Len(ledger) :
        LET ordered == req[ledger[i].by].ordered
        IN  /\ \A k \in 1..Len(ledger[i].ranks) :
                   \E pos \in 1..Len(ordered) :
                       /\ ledger[i].ranks[k].rank = pos
                       /\ \E m \in 1..Len(ordered[pos].ids) :
                              SampleRow(ordered[pos].ids[m]).id = ledger[i].ranks[k].sample_id
            /\ RankValues(ledger[i]) = 1..Cardinality(RankValues(ledger[i]))

\* The ranking of a loaded request names only samples of the pair its token
\* was issued for, and both samples of the pair had a Sample row at the lookup.
ValidVote(r) ==
    /\ RankedIds(req[r].ordered) \subseteq BoundPair(req[r].token)
    /\ BoundPair(req[r].token) \subseteq req[r].found
NonVoter(r) ==
    req[r].user_uuid \in UsersDB /\ "voting:vote" \notin UserRow(req[r].user_uuid).scopes
ModelNames(t) == <<SampleRow(bound[t][2]).model, SampleRow(bound[t][3]).model>>

C8_NonVoterAlways200 ==
    \A r \in Requests :
        (req[r].pc = "done" /\ NonVoter(r) /\ Obtained(r)) =>
            /\ req[r].status = 200
            /\ req[r].body = ModelNames(req[r].token)
            /\ RowsBy(r) = {}

\* C8 as amended: a request of an authenticated caller without the voting
\* scope never has a Comparison in the ledger, never touches the lock and
\* sends no task; when its ranking is inside the bound pair and both samples
\* are in storage it is answered 200 with both samples' model names.
C8_NonVoterValid200 ==
    \A r \in Requests :
        (NonVoter(r) /\ Obtained(r)) =>
            /\ RowsBy(r) = {}
            /\ JobsBy({r}) = {}
            /\ req[r].lock = "none"
            /\ (req[r].pc = "done" /\ ValidVote(r)) =>
                   req[r].status = 200 /\ req[r].body = ModelNames(req[r].token)

\* A caller without the voting scope redeemed a live token with a valid
\* ranking and got 200 with the model names.
C8_Witness ==
    \E r \in Requests :
        /\ req[r].pc = "done" /\ NonVoter(r) /\ Obtained(r) /\ ValidVote(r)
        /\ req[r].ordered # <<>>
        /\ req[r].status = 200

\* C9: two finished requests that redeemed live tokens of the same triple
\* with the same ranking, and saw the same Sample rows, received the same
\* status, detail and body, whatever their callers' right to vote.
Response(r) == <<req[r].status, req[r].detail, req[r].body>>
C10_AbsenceUniform ==
    /\ \A r \in Requests :
           Missed(r) =>
               /\ req[r].cause \in {"unissued", "redeemed", "expired"}
               /\ req[r].pc = "done"
               /\ Response(r) = <<404, "No active comparisons found", <<>>>>
               /\ RowsBy(r) = {}
               /\ JobsBy({r}) = {}
               /\ req[r].lock = "none"
    /\ \A r1 \in Requests, r2 \in Requests :
           (Missed(r1) /\ Missed(r2)) => Response(r1) = Response(r2)

\* One request presented an expired token and another a token that was never
\* issued: both were answered 404.
C10_Witness ==
    \E r1 \in Requests, r2 \in Requests :
        /\ Missed(r1) /\ req[r1].cause = "expired"
        /\ Missed(r2) /\ req[r2].cause = "unissued"
        /\ req[r1].status = 404 /\ req[r2].status = 404

\* C11: a token key never has more than 3600 seconds left, so it is gone 3600
\* seconds after its issuance at the latest; a token that expired unredeemed
\* is absent from the store for good, every request that presented it has
\* ended with 404 "No active comparisons found", and no Comparison is for it.
C11_ExpiredStaysAbsent ==
    \A t \in Tokens :
        /\ cache[t].ttl <= TokenTTL
        /\ fate[t] = "live" <=> cache[t].ttl > 0
        /\ fate[t] = "expired" =>
               /\ cache[t] = Absent
               /\ \A r \in Presenters(t) :
                      /\ Missed(r) /\ req[r].cause = "expired"
                      /\ req[r].pc = "done" /\ req[r].status = 404
                      /\ RowsBy(r) = {}
               /\ \A i \in 1..Len(ledger) : ledger[i].token # t

\* Two requests, one after the other, presented a token that had expired
\* unredeemed, and both were answered 404.
C11_Witness ==
    \E t \in Issued :
        /\ fate[t] = "expired"
        /\ \A r \in Requests : req[r].token = t /\ Missed(r) /\ req[r].status = 404

\* A finished request that ended in an error other than the absent token's.
Rejected(r) == req[r].pc = "done" /\ req[r].status \notin {200, 404}

\* C13 as stated: a request that fails validation has not deleted its token
\* and has no Comparison in the ledger.
C13_ValidationBeforeRedemption ==
    \A r \in Requests : Rejected(r) => (~Obtained(r) /\ RowsBy(r) = {})

\* C13 as amended: a request that has a Comparison in the ledger, reached
\* the lock or sent a task has resolved its caller, redeemed its token, found
\* both samples and the metric and ranked only samples of the bound pair; a
\* request rejected at caller resolution read no token, and a token is gone
\* as redeemed only through a request that obtained it; a request rejected
\* later has consumed its token and wrote nothing.
C13_ValidationBeforeLedger ==
    /\ \A r \in Requests :
           (RowsBy(r) # {} \/ JobsBy({r}) # {} \/ req[r].lock # "none"
                \/ req[r].pc \in {"vote", "enqueue"}) =>
               /\ Obtained(r)
               /\ ValidVote(r)
               /\ req[r].metric # None
    /\ \A r \in Requests :
           Rejected(r) =>
               /\ RowsBy(r) = {} /\ JobsBy({r}) = {} /\ req[r].lock = "none"
               /\ ~Resolved(r) => req[r].token_data = <<>>
               /\ Resolved(r) =>
                      /\ Obtained(r)
                      /\ fate[req[r].token] = "redeemed"
                      /\ cache[req[r].token] = Absent
    /\ \A t \in Issued : fate[t] = "redeemed" => Redeemers(t) # {}

\* A request redeemed a live token and was then rejected for its ranking; a
\* second request presenting the same token was answered 404, and the ledger
\* is empty.
C13_Witness ==
    \E r1 \in Requests, r2 \in Requests :
        /\ Rejected(r1) /\ Obtained(r1) /\ ~ValidVote(r1)
        /\ req[r2].token = req[r1].token /\ Missed(r2) /\ req[r2].status = 404
        /\ ledger = <<>>

\* Number of executions of a strategy's plan among the accesses of a request.
IsPlan(access) == access = "plan"
PlansRun(storage) == Len(SelectSeq(storage, IsPlan))
NoTestSet(out) ==
    out.status = 500 /\ out.detail \in {"Default " \o name \o " test set not found" :
                                            name \in DOMAIN TestSetsDB}

\* C12: the last batch request, if its batch_size was above 10, was answered
\* 406 and had made no storage access (no test-set, user or metric lookup, no
\* plan, no session processing).
C12_OversizeRejectedFirst ==
    batchOut.request.batch_size > MAX_BATCH_SIZE =>
        /\ batchOut.status = 406
        /\ batchOut.storage = <<>>

C15_PlanFailureFailsBatch ==
    /\ PlansRun(batchOut.storage) <= 1
    /\ ~batchOut.request.execOK =>
           /\ batchOut.status # 200
           /\ batchOut.issued = {}
           /\ batchOut.comparisons = <<>>
           /\ PlansRun(batchOut.storage) = 1 =>
                  /\ batchOut.status = 500
                  /\ batchOut.detail = "Failed to retrieve comparison batch"

\* The plan of the last batch request failed and the request was answered
\* 500, with the tokens of an earlier batch untouched.
C15_Witness ==
    /\ ~batchOut.request.execOK
    /\ PlansRun(batchOut.storage) = 1
    /\ batchOut.status = 500
    /\ \E t \in Issued : fate[t] = "live" /\ cache[t].ttl = TokenTTL

\* The rows of the active strategy's shape among the rows a plan returned.
ValidRows(rows, priority) ==
    LET RightShape(row) == row.n = IF priority THEN 11 ELSE 5
    IN  SelectSeq(rows, RightShape)

\* C16: every batch request that passes its checks and whose plan returns
\* rows is answered 200 with exactly the rows of the active strategy's shape,
\* in order, each with a token of its own, and mints no token for any other
\* row.
C16_MalformedRowsDropped ==
    [][\A user_id \in WideCallers, metric_id \in MetricsDB, priority \in BOOLEAN,
          rows \in WideRows \ {<<>>} :
           ( /\ BatchChecks(user_id, BatchRows, metric_id, TRUE).status = 0
             /\ GetComparisonBatch(user_id, BatchRows, metric_id, priority, TRUE, rows) ) =>
               LET valid == ValidRows(rows, priority)
                   out == batchOut'.comparisons
               IN  /\ batchOut'.status = 200
                   /\ Len(out) = Len(valid)
                   /\ \A i \in 1..Len(out) : out[i].samples = <<valid[i].s1, valid[i].s2>>
                   /\ batchOut'.issued = {out[i].token : i \in 1..Len(out)}
                   /\ Cardinality(batchOut'.issued) = Len(valid)]_vars

\* C17: the comparisons of a new batch response carry pairwise distinct
\* tokens that had never been issued, each stored at that moment with the
\* serialised (metric, sample 1, sample 2) of its own pair and 3600 seconds to
\* live; a key of the token store is never rewritten, so until it is redeemed
\* or expires a token keeps the triple it was issued for.
C17_FreshBoundTokens ==
    [][ /\ batchOut'.comparisons # batchOut.comparisons =>
               \A i \in 1..Len(batchOut'.comparisons) :
                   LET c == batchOut'.comparisons[i]
                   IN  /\ c.token \in Tokens
                       /\ fate[c.token] = "unissued" /\ cache[c.token] = Absent
                       /\ cache'[c.token] =
                              [val |-> Serialize(c.metric_id, c.samples[1], c.samples[2]),
                               ttl |-> TokenTTL]
                       /\ c.metric_id = batchOut'.request.metric_id
                       /\ \A j \in 1..Len(batchOut'.comparisons) :
                              batchOut'.comparisons[j].token = c.token => j = i
        /\ \A t \in Tokens :
               /\ cache[t].ttl > 0 =>
                      \/ cache'[t] = Absent
                      \/ cache'[t].val = cache[t].val /\ cache'[t].ttl <= cache[t].ttl
               /\ cache'[t].ttl > 0 =>
                      cache'[t].val = Serialize(bound'[t][1], bound'[t][2], bound'[t][3])
      ]_vars

\* A batch response with two comparisons over different pairs, whose tokens
\* are both in the store with their full 3600 seconds.
C17_Witness ==
    /\ batchOut.status = 200
    /\ Len(batchOut.comparisons) = 2
    /\ batchOut.comparisons[1].samples # batchOut.comparisons[2].samples
    /\ \A i \in 1..2 : cache[batchOut.comparisons[i].token].ttl = TokenTTL

\* C18: a request that redeemed a token and parsed its value holds the
\* metric id and the two sample ids the token was issued for, the samples in
\* the order of issuance.
C18_RoundTrip ==
    \A r \in Requests :
        Loaded(r) =>
            /\ ParseOK(req[r].token_data)
            /\ ParseToken(req[r].token_data) = bound[req[r].token]
            /\ req[r].pair = <<bound[req[r].token][2], bound[req[r].token][3]>>
            /\ req[r].status = 200 => req[r].metric = MetricRow(bound[req[r].token][1])

\* A request redeemed a token issued for (metric 1, sample 2, sample 3) and
\* finished with the pair (2, 3).
C18_Witness ==
    \E r \in Requests :
        /\ Loaded(r) /\ req[r].pc = "done" /\ req[r].status = 200
        /\ bound[req[r].token] = <<1, 2, 3>>
        /\ req[r].pair = <<2, 3>>

\* C20: every Comparison in the ledger is the complete record of a request
\* that returned 200, with one rank row per (rank, sample) pair of the
\* request's ranking; a request that is still running, or that ended in an
\* error at any step, has nothing in the ledger.
C20_AtomicVote ==
    /\ \A i \in 1..Len(ledger) :
           LET r == ledger[i].by
           IN  /\ req[r].pc = "done" /\ req[r].status = 200
               /\ ledger[i] = PendingComparison(r)
               /\ Len(ledger[i].ranks) = Len(RanksFrom(req[r].ordered, 0,
                                                      [e \in Samples |-> SampleRow(e)]))
    /\ \A r \in Requests :
           (req[r].pc # "done" \/ req[r].status # 200) => RowsBy(r) = {}

\* An eligible request with a two-sample ranking acquired the lock and then
\* failed at send_task: the ledger holds nothing of it.
C20_Witness ==
    \E r \in Requests :
        /\ req[r].pc = "done" /\ req[r].status = 500 /\ req[r].cause = "enqueue"
        /\ req[r].lock = "acquired"
        /\ Len(req[r].ranks) = 2
        /\ ledger = <<>>

\* ---------------------------------------------------------------- C21 - C30
\* C21: a task is in the queue only when the Comparison of the request that
\* sent it is in the ledger, and a task that has started read a ledger that
\* held that Comparison.
C21_JobAfterCommit ==
    \A i \in 1..Len(queue) :
        /\ RowsBy(queue[i].by) # {}
        /\ queue[i].started => \E k \in RowsBy(queue[i].by) : k <= queue[i].seen

\* C22: a request that found the lock held and whose Comparison is in the
\* ledger is covered by the task of the lock's holder: once the holder has
\* sent its task, that task has not started yet or it read a ledger that
\* held the Comparison.
C22_HeldLockVoteCovered ==
    \A r \in Requests :
        ( /\ req[r].lock = "held"
          /\ RowsBy(r) # {}
          /\ JobsBy(Acquirers(req[r].epoch)) # {} ) =>
            \E i \in JobsBy(Acquirers(req[r].epoch)) :
                \/ ~queue[i].started
                \/ \E k \in RowsBy(r) : k <= queue[i].seen

\* C23: a finished request that reached the lock, whether it found the lock
\* held or acquired it, answered 200 with the two model names and has exactly
\* one Comparison, its own vote, in the ledger; it sent one task when it
\* acquired the lock and none when the lock was held.
C23_HeldLockIsNoError ==
    \A r \in Requests :
        (req[r].lock # "none" /\ req[r].pc = "done") =>
            /\ Response(r) = <<200, "", ModelNames(req[r].token)>>
            /\ Cardinality(RowsBy(r)) = 1
            /\ \A k \in RowsBy(r) : ledger[k] = PendingComparison(r)
            /\ Cardinality(JobsBy({r})) = IF req[r].lock = "held" THEN 0 ELSE 1

C23_Witness ==
    \E r \in Requests, h \in Requests :
        /\ req[r].lock = "acquired" /\ req[r].pc = "done"
        /\ req[h].lock = "held" /\ req[h].pc = "done" /\ req[h].epoch = req[r].epoch
        /\ req[h].status = 200 /\ RowsBy(h) # {} /\ JobsBy({h}) = {}
        /\ Len(queue) = 1

\* C24: while the lock key is held, the request that acquired it has sent
\* its task or is about to call send_task.
C24_HeldLockHasJob ==
    lock > 0 =>
        \E r \in Acquirers(epoch) : req[r].pc = "enqueue" \/ JobsBy({r}) # {}

\* C25: a request whose redeemed token is bound to a sample that the lookup
\* did not find has failed, has no Comparison in the ledger, never reached
\* the lock and sent no task; its token is gone from the cache, and every
\* other request that presented the token was answered 404.
MissingSample(r) == Loaded(r) /\ ~(BoundPair(req[r].token) \subseteq req[r].found)
C25_MissingSampleFails ==
    \A r \in Requests :
        MissingSample(r) =>
            /\ req[r].pc = "done" /\ req[r].status \notin {0, 200}
            /\ RowsBy(r) = {} /\ JobsBy({r}) = {} /\ req[r].lock = "none"
            /\ \A i \in 1..Len(ledger) : ledger[i].token # req[r].token
            /\ cache[req[r].token] = Absent
            /\ \A o \in Presenters(req[r].token) \ {r} :
                   Missed(o) /\ Response(o) = <<404, "No active comparisons found", <<>>>>

C25_Witness ==
    \E r \in Requests, o \in Requests :
        /\ MissingSample(r) /\ req[r].pc = "done"
        /\ o # r /\ req[o].token = req[r].token /\ Missed(o) /\ req[o].status = 404

\* C26: a finished request whose bound sample was not found got the same
\* response as a request whose token was not in the cache: 404 with
\* "No active comparisons found".
C26_MissingSampleIsNotFound ==
    \A r \in Requests :
        (MissingSample(r) /\ req[r].pc = "done") =>
            /\ req[r].status = NotFoundError(req[r].token).status
            /\ req[r].detail = NotFoundError(req[r].token).detail

\* C27: when a request died after it had redeemed a token and before its
\* Comparison was committed, the token is absent from the cache, the ledger
\* holds no Comparison for the token, and every other request that presented
\* the token afterwards was answered 404 (so none can ever add one).
Crashed(r) == req[r].pc = "crashed" /\ Obtained(r)
C27_CrashedVoteLostOnce ==
    \A r \in Requests :
        Crashed(r) =>
            /\ cache[req[r].token] = Absent
            /\ fate[req[r].token] = "redeemed"
            /\ RowsBy(r) = {}
            /\ \A i \in 1..Len(ledger) : ledger[i].token # req[r].token
            /\ \A o \in Presenters(req[r].token) \ {r} :
                   /\ Missed(o)
                   /\ Response(o) = <<404, "No active comparisons found", <<>>>>
                   /\ RowsBy(o) = {}

\* A request died with its vote ready, and a retry with the same token was
\* answered 404.
C27_Witness ==
    \E r \in Requests, o \in Requests :
        /\ Crashed(r) /\ req[r].lock # "none"
        /\ o # r /\ req[o].token = req[r].token /\ req[o].pc = "done" /\ req[o].status = 404
        /\ ledger = <<>>

\* C28: a request of an authenticated caller without the voting scope that
\* presented a live token has taken it: the token is absent from the cache
\* and marked redeemed, the ledger holds no Comparison for it, and every
\* other request that presented the token, eligible or not, was answered
\* 404 and recorded nothing.
C28_NonVoterConsumesToken ==
    \A r \in Requests :
        (NonVoter(r) /\ Obtained(r)) =>
            /\ cache[req[r].token] = Absent
            /\ fate[req[r].token] = "redeemed"
            /\ RowsBy(r) = {}
            /\ \A i \in 1..Len(ledger) : ledger[i].token # req[r].token
            /\ \A o \in Presenters(req[r].token) \ {r} :
                   /\ Missed(o)
                   /\ Response(o) = <<404, "No active comparisons found", <<>>>>
                   /\ RowsBy(o) = {}

\* A caller without the scope got 200 for a token, and an eligible caller who
\* presented the same token afterwards got 404.
C28_Witness ==
    \E r \in Requests, o \in Requests :
        /\ NonVoter(r) /\ Obtained(r) /\ req[r].pc = "done" /\ req[r].status = 200
        /\ o # r /\ req[o].token = req[r].token /\ Resolved(o) /\ req[o].can_vote
        /\ req[o].pc = "done" /\ req[o].status = 404

\* C29: a batch request that did not answer 200 left none of the tokens it
\* wrote in the cache.
C29_MintingAllOrNothing ==
    batchOut.status # 200 => \A t \in batchOut.issued : cache[t] = Absent

\* C30: a held lock changes only by time passing (no request deletes or
\* refreshes it, and its expiry opens a new window); a request that reaches
\* the lock acquires it exactly when the key is absent, and finds it held
\* and leaves it alone otherwise; and the number of tasks sent equals the
\* number of acquirers that have passed send_task.
C30_ReleasedByExpiryOnly ==
    [][ /\ (lock > 0 /\ lock' # lock) =>
               /\ lock' < lock
               /\ req' = req /\ queue' = queue
               /\ lock' = 0 => epoch' = epoch + 1
        /\ \A r \in Requests :
               (req[r].lock = "none" /\ req'[r].lock # "none") =>
                   IF lock = 0
                   THEN req'[r].lock = "acquired" /\ lock' = LockTTL
                   ELSE req'[r].lock = "held" /\ lock' = lock
        /\ Len(queue') = Cardinality({r \in Requests :
                              req'[r].lock = "acquired" /\ req'[r].pc # "enqueue"})
      ]_vars

\* ---------------------------------------------------------------- C31 - C34
\* C31: a step of a vote request that adds no Comparison (a caller without
\* the voting scope, a token that is not in the cache, a failure before the
\* lock is tried) leaves the lock and the queue as they were, and such a
\* request never holds the lock or has a task in the queue; the lock is set
\* and a task is sent only by a step of an eligible caller that got its
\* token's value, passed the lookups and added its Comparison.
AddsNothing(r) ==
    \/ NonVoter(r)
    \/ Missed(r)
    \/ req[r].pc = "done" /\ req[r].status = 500 /\ req[r].cause \notin {"enqueue", "response"}
AddedComparison(r) ==
    /\ Obtained(r) /\ ~NonVoter(r)
    /\ ValidVote(r) /\ req[r].metric # None
    /\ req[r].lock # "none"
C31_NoRowNoLockNoJob ==
    [][ /\ \A r \in Requests :
               AddsNothing(r)' =>
                   /\ req'[r].lock = "none" /\ JobsBy({r})' = {}
                   /\ req'[r] # req[r] => (lock' = lock /\ queue' = queue)
        /\ (lock' > lock \/ Len(queue') > Len(queue)) =>
               \E r \in Requests : req'[r] # req[r] /\ AddedComparison(r)'
      ]_vars

\* A request that got its token's value and added nothing (a caller without
\* the scope, or a vote that failed at its rank rows) has finished while the
\* lock is free and the queue empty.
C31_Witness ==
    \E r \in Requests :
        /\ req[r].pc = "done" /\ AddsNothing(r) /\ Obtained(r)
        /\ (NonVoter(r) \/ req[r].cause = "rank insert")
        /\ lock = 0 /\ queue = <<>>

\* C32: the test set of every Comparison in the ledger is the test set of the
\* first sample of its token's pair when that sample has one, otherwise the
\* test set of the second sample, otherwise null (0).
C32_FirstTestSetWins ==
    \A i \in 1..Len(ledger) :
        LET first == SampleRow(bound[ledger[i].token][2]).test_set_id
            second == SampleRow(bound[ledger[i].token][3]).test_set_id
        IN  /\ first # 0 => ledger[i].test_set_id = first
            /\ (first = 0 /\ second # 0) => ledger[i].test_set_id = second
            /\ (first = 0 /\ second = 0) => ledger[i].test_set_id = 0

\* A Comparison of a pair whose samples carry different test sets took the
\* first sample's.
C32_Witness ==
    \E i \in 1..Len(ledger) :
        LET first == SampleRow(bound[ledger[i].token][2]).test_set_id
            second == SampleRow(bound[ledger[i].token][3]).test_set_id
        IN  first # 0 /\ second # 0 /\ first # second /\ ledger[i].test_set_id = first

\* C33: every step keeps the rows the ledger holds, with their rank rows, as
\* they are and in place; a step of a batch request, and a step of a vote
\* request of a caller without the voting scope or one that ends the request
\* without a 200, leaves the ledger unchanged; a step that changes the ledger
\* appends one Comparison, and it is the step of an eligible caller's request
\* that got the value of an issued token and answers 200.
C33_LedgerAppendOnly ==
    [][ /\ Len(ledger') >= Len(ledger)
        /\ \A i \in 1..Len(ledger) : ledger'[i] = ledger[i]
        /\ batchOut' # batchOut => ledger' = ledger
        /\ \A r \in Requests :
               ( /\ req'[r] # req[r]
                 /\ \/ NonVoter(r)'
                    \/ req'[r].pc = "crashed"
                    \/ req'[r].pc = "done" /\ req'[r].status # 200 ) => ledger' = ledger
        /\ ledger' # ledger =>
               /\ Len(ledger') = Len(ledger) + 1
               /\ LET row == ledger'[Len(ledger')]
                  IN  \E r \in Requests :
                          /\ row.by = r /\ req'[r] # req[r]
                          /\ Obtained(r)' /\ ~NonVoter(r)'
                          /\ row.token = req'[r].token /\ row.token \in Issued
                          /\ fate'[row.token] = "redeemed"
                          /\ req'[r].status = 200
      ]_vars

\* Two batch requests were served and two votes recorded: the second
\* Comparison was appended behind the first.
C33_Witness ==
    /\ Len(ledger) = 2
    /\ ledger[1].by # ledger[2].by
    /\ minted = MaxTokens

\* C34: every connection of the pool has both named plans prepared, and a
\* batch request that executed a plan on a connection found it there.
C34_EveryConnectionPrepared ==
    /\ \A c \in 1..Len(pool) : pool[c].plans = PlanNames
    /\ PlansRun(batchOut.storage) > 0 => batchOut.request.execOK
====
